---- MODULE Spec2Model ----
(***************************************************************************)
(* SentinelFS (src/src/sentinelfs.c): a FUSE pass-through filesystem whose *)
(* write callback takes a just-in-time backup of the target and then       *)
(* rejects payloads that libmagic does not whitelist and whose Shannon     *)
(* entropy exceeds ENTROPY_THRESHOLD.                                      *)
(*                                                                         *)
(* Paths and media types are TLA+ strings, payloads and file contents are  *)
(* sequences of bytes (0..255).  The underlying storage is a flat map from *)
(* concrete path to file, plus the set of existing directories.            *)
(***************************************************************************)
EXTENDS Integers, Sequences, FiniteSets, TLC

(***************************************************************************)
(* Program constants                                                       *)
(***************************************************************************)
MAX_PATH == 4096

\* 50 * 1024 * 1024
JIT_BACKUP_MAX_SIZE == 50 * 1024 * 1024

BACKUP_DIR == ".sentinelfs_backups"

\* 7.5 as a rational: entropies are compared exactly, never rounded.
\* a threshold of 6.5 in place of 7.5
ENTROPY_THRESHOLD_low == [num |-> 13, den |-> 2]

ENTROPY_THRESHOLD == [num |-> 15, den |-> 2]

\* errno values returned (negated) by the callbacks
EIO == 5
ENOENT == 2

\* magic_buffer() returning NULL
NULL == "<NULL>"

(***************************************************************************)
(* C library helpers                                                       *)
(***************************************************************************)
Min(a, b) == IF a < b THEN a ELSE b
Max(a, b) == IF a > b THEN a ELSE b

\* snprintf(dst, n, ...) stores at most n-1 characters of the formatted text
\* and silently drops the rest.
Snprintf(n, text) == IF Len(text) <= n - 1 THEN text ELSE SubSeq(text, 1, n - 1)

\* strstr(hay, needle) == hay : needle occurs at position 0 of hay
StartsWith(hay, needle) ==
    /\ Len(needle) <= Len(hay)
    /\ SubSeq(hay, 1, Len(needle)) = needle

\* the largest i <= n with s[i] = '/', 0 when there is none.  The scan runs
\* from the end of s, 32 characters per level of the recursion.
RECURSIVE LastSlash(_, _)
LastSlash(s, n) ==
    LET IsSlash(i) == SubSeq(s, i, i) = "/"
        block == Max(1, n - 31)..n
    IN  IF n <= 0 THEN 0
        ELSE IF \E i \in block : IsSlash(i)
        THEN CHOOSE i \in block :
                 IsSlash(i) /\ \A j \in (i + 1)..n : ~IsSlash(j)
        ELSE LastSlash(s, n - 32)

\* strrchr(s, '/'): index of the last '/', 0 when there is none
Strrchr(s) == LastSlash(s, Len(s))

\* "%ld" of a non-negative integer
RECURSIVE FormatLong(_)
FormatLong(n) ==
    LET d == SubSeq("0123456789", (n % 10) + 1, (n % 10) + 1)
    IN  IF n < 10 THEN d ELSE FormatLong(n \div 10) \o d

(***************************************************************************)
(* log2 in fixed point.  FRAC fraction bits are produced by the            *)
(* square-and-compare method on a mantissa held with MANT bits; the result *)
(* is exact when x is a power of two and within 2^-FRAC of log2(x)         *)
(* otherwise.                                                              *)
(***************************************************************************)
FRAC == 10
MANT == 14

Pow2(k) == 2 ^ k

\* the position of the highest set bit of x
FloorLog2(x) == Cardinality({k \in 1..30 : Pow2(k) <= x})

RECURSIVE Log2Bits(_, _)
Log2Bits(m, k) ==
    IF k = 0 THEN 0
    ELSE LET sq == (m * m) \div Pow2(MANT)
         IN  IF sq >= 2 * Pow2(MANT)
             THEN Pow2(k - 1) + Log2Bits(sq \div 2, k - 1)
             ELSE Log2Bits(sq, k - 1)

\* log2(x) * 2^FRAC for an integer x >= 1
Log2Fix(x) ==
    LET ip == FloorLog2(x)
        m  == (x * Pow2(MANT)) \div Pow2(ip)
    IN  ip * Pow2(FRAC) + Log2Bits(m, FRAC)

RatGT(a, b) == a.num * b.den > b.num * a.den
RatLE(a, b) == ~RatGT(a, b)

(***************************************************************************)
(* calculate_entropy: H = - SUM p log2 p over the byte values that occur,  *)
(* p = counts[i] / len.  Returned as the rational num/den with             *)
(* num = SUM counts[i] * (log2 len - log2 counts[i]) and den = len, both   *)
(* scaled by 2^FRAC.                                                       *)
(***************************************************************************)
\* counts[b] after "for (i = 0; i < len; i++) counts[buffer[i]]++"
ByteCount(buffer, len, b) == Cardinality({i \in 1..len : buffer[i] = b})

\* "for (int i = 0; i < 256; i++)" over the byte values lo..hi, split in
\* halves to keep the evaluation shallow; loglen is log2(len)
RECURSIVE SumTerms(_, _, _, _, _)
SumTerms(buffer, len, loglen, lo, hi) ==
    IF lo = hi
    THEN LET c == ByteCount(buffer, len, lo)
         IN  IF c > 0 THEN c * (loglen - Log2Fix(c)) ELSE 0
    ELSE LET mid == (lo + hi) \div 2
         IN  SumTerms(buffer, len, loglen, lo, mid)
               + SumTerms(buffer, len, loglen, mid + 1, hi)

calculate_entropy(buffer, len) ==
    IF len = 0 THEN [num |-> 0, den |-> 1]
    ELSE [num |-> SumTerms(buffer, len, Log2Fix(len), 0, 255),
          den |-> len * Pow2(FRAC)]


(***************************************************************************)
(* Bounds of the model                                                     *)
(***************************************************************************)
\* facade calls per run
MaxCalls == 2
\* seconds the clock may advance while the filesystem is mounted
MaxTicks == 1
\* write calls the worker threads serve per run
MaxParCalls == 3

(***************************************************************************)
(* Global context, as set up by main()                                     *)
(***************************************************************************)
\* <limits.h>: the longest file name the storage accepts
NAME_MAX == 255

\* s repeated n times
RECURSIVE Rep(_, _)
Rep(s, n) ==
    IF n = 0 THEN ""
    ELSE IF n % 2 = 1 THEN s \o Rep(s, n - 1)
    ELSE LET h == Rep(s, n \div 2) IN h \o h

\* The storage directory is deeply nested: a file with a NAME_MAX-long name
\* directly inside the backup directory has a concrete path of exactly
\* MAX_PATH - 1 characters.
RootLen == MAX_PATH - 1 - (1 + Len(BACKUP_DIR)) - (1 + NAME_MAX)

\* global_ctx->storage_path = realpath(argv[1])
storage_path == Rep("/rr", RootLen \div 3)

\* snprintf(global_ctx->backup_path, MAX_PATH, "%s/%s", storage_path, BACKUP_DIR)
backup_path == Snprintf(MAX_PATH, storage_path \o "/" \o BACKUP_DIR)

\* tv_sec at mount time
Epoch == 1700000000

(***************************************************************************)
(* Inputs: virtual paths                                                   *)
(***************************************************************************)
DocPath == "/doc.txt"
SecretPath == "/secret.bin"
BackupDirVPath == "/" \o BACKUP_DIR

\* a directory with a NAME_MAX-long name and a file in it whose concrete
\* path is MAX_PATH - 1 long
DeepDir == "/" \o Rep("d", NAME_MAX)
DeepFile == DeepDir \o "/" \o Rep("m", MAX_PATH - 2 - RootLen - Len(DeepDir))
\* one character more: storage_path \o DeepLong does not fit in MAX_PATH
DeepLong == DeepFile \o "b"

\* a file with a NAME_MAX-long name directly inside the backup directory
LongNamed == BackupDirVPath \o "/" \o Rep("n", NAME_MAX)

\* the name the backup of the document gets at mount time
SquatPath == BackupDirVPath \o "/doc.txt." \o FormatLong(Epoch) \o ".backup"

FilePaths == {DocPath, SecretPath, DeepLong}
DirPaths == {SquatPath}

(***************************************************************************)
(* Inputs: payloads                                                        *)
(***************************************************************************)
Spread(i) == (i * 37 + 11) % 256

EmptyBuf == << >>
\* a lone '#'
OneByte == <<35>>
\* 100 bytes of lower-case ASCII text
Text100 == [i \in 1..100 |-> 97 + (i % 26)]
\* 100 pairwise distinct bytes: the largest entropy a 100-byte payload can have
Rand100 == [i \in 1..100 |-> Spread(i)]
\* 256 pairwise distinct bytes: entropy 8
Rand256 == [i \in 1..256 |-> Spread(i)]
\* 64 values twice and 128 values once: entropy exactly 7.5
Edge256 == [i \in 1..256 |-> IF i <= 128 THEN (i - 1) % 64 ELSE i - 65]
\* 63 values twice and 130 values once: entropy 8 - 126/256, just above 7.5
Above256 == [i \in 1..256 |-> IF i <= 126 THEN (i - 1) % 63 ELSE i - 64]
\* "%PDF-" followed by high-entropy data
Pdf256 == [i \in 1..256 |->
             IF i <= 5 THEN <<37, 80, 68, 70, 45>>[i] ELSE Spread(i)]
\* "#!" followed by high-entropy data
Shebang256 == [i \in 1..256 |-> IF i <= 2 THEN <<35, 33>>[i] ELSE Spread(i)]

Buffers == {EmptyBuf, OneByte, Text100, Rand100, Rand256, Edge256, Above256,
            Pdf256, Shebang256}

Offsets == {0, 1}

\* the write calls of the model: every payload at offset 0 and three of them
\* at offset 1 on the document, three payloads at offset 0 on the path that
\* does not exist at mount time and on the two longest paths
WriteCalls ==
    ({DocPath} \X Buffers \X {0})
      \cup ({DocPath} \X {EmptyBuf, Text100, Rand256} \X {1})
      \cup ({SecretPath} \X {EmptyBuf, Text100, Rand256} \X {0})
      \cup ({LongNamed} \X {Rand256} \X {0})
      \cup ({DeepLong} \X {Rand256} \X {0})

(***************************************************************************)
(* The content classifier (libmagic, external).  A magic database fixes    *)
(* what magic_buffer() reports for a buffer; it is loaded once at init.    *)
(* "default" is the stock database.  "local" is a database with site       *)
(* additions, some of which make magic_buffer() fail (return NULL).        *)
(***************************************************************************)
MagicDbs == {"default", "local"}

magic_buffer(db, buffer, len) ==
    CASE db = "local" /\ buffer = Rand256 -> "application/pdf-encrypted"
      [] db = "local" /\ buffer = Above256 -> "x-vendor/text/plain"
      [] db = "local" /\ buffer = Rand100 -> "application/x-sharedlib"
      [] db = "local" /\ buffer \in {Shebang256, Pdf256, Text100} -> NULL
      [] OTHER ->
           IF len = 0 THEN "application/x-empty"
           ELSE IF buffer = Text100 THEN "text/plain"
           ELSE IF buffer = Pdf256 THEN "application/pdf"
           ELSE "application/octet-stream"

(***************************************************************************)
(* is_whitelisted_file                                                     *)
(***************************************************************************)
safe_types == <<"text/", "application/pdf", "application/x-executable",
                "application/x-sharedlib", "application/x-shellscript">>

\* is_whitelisted_file without the shebang rule
is_whitelisted_file_no_shebang(db, buffer, len) ==
    LET mime == magic_buffer(db, buffer, len)
    IN  IF mime = NULL
        THEN [safe |-> FALSE, err |-> <<"LibMagic error">>]
        ELSE IF \E i \in 1..Len(safe_types) : StartsWith(mime, safe_types[i])
        THEN [safe |-> TRUE, err |-> << >>]
        ELSE [safe |-> FALSE, err |-> << >>]

\* [safe |-> the return value, err |-> diagnostics written to stderr]
is_whitelisted_file(db, buffer, len) ==
    LET mime == magic_buffer(db, buffer, len)
    IN  IF mime = NULL
        THEN [safe |-> FALSE, err |-> <<"LibMagic error">>]
        ELSE IF \E i \in 1..Len(safe_types) : StartsWith(mime, safe_types[i])
        THEN [safe |-> TRUE, err |-> << >>]
        ELSE IF len >= 2 /\ buffer[1] = 35 /\ buffer[2] = 33
        THEN [safe |-> TRUE, err |-> << >>]
        ELSE [safe |-> FALSE, err |-> << >>]

(***************************************************************************)
(* Entropy of the payloads, computed once per payload.                     *)
(***************************************************************************)
EntropyMemo == {<<b, calculate_entropy(b, Len(b))>> : b \in Buffers}

Entropy(buffer, len) ==
    IF len = Len(buffer) /\ \E p \in EntropyMemo : p[1] = buffer
    THEN (CHOOSE p \in EntropyMemo : p[1] = buffer)[2]
    ELSE calculate_entropy(buffer, len)

(***************************************************************************)
(* The world a callback acts on:                                           *)
(*   files  : concrete path -> [data, size] for the regular files of the   *)
(*            underlying storage; bytes from Len(data)+1 to size are a     *)
(*            hole and read as 0                                           *)
(*   dirs   : the directories of the underlying storage                    *)
(*   stats  : the three counters                                           *)
(*   err    : what the callback has written to stderr so far               *)
(***************************************************************************)
File(data) == [data |-> data, size |-> Len(data)]

ByteAt(f, i) == IF i <= Len(f.data) THEN f.data[i] ELSE 0

\* the two files hold the same bytes
SameBytes(f, g) ==
    /\ f.size = g.size
    /\ \A i \in 1..Max(Len(f.data), Len(g.data)) : ByteAt(f, i) = ByteAt(g, i)

Exists(w, p) == p \in DOMAIN w.files

\* s without its last component (the parent directory of s)
Dirname(s) == SubSeq(s, 1, Strrchr(s) - 1)

\* files with path p set to f, created when absent
Put(files, p, f) == (p :> f) @@ files

Remove(files, p) == [q \in DOMAIN files \ {p} |-> files[q]]

\* can p be opened for writing with creation: fopen(p, "wb"), creat(p, mode)
CanCreate(w, p) == p \notin w.dirs /\ Dirname(p) \in w.dirs

\* pwrite(fd, buf, size, offset) on file f: the bytes of buf replace those at
\* offset+1 .. offset+size; a gap between the end of the data and offset is
\* filled with zeros
Pwrite(f, buf, size, offset) ==
    IF size = 0 THEN f
    ELSE LET n == Len(f.data)
             head == IF offset <= n THEN SubSeq(f.data, 1, offset)
                     ELSE f.data \o [i \in 1..(offset - n) |-> 0]
             tail == SubSeq(f.data, offset + size + 1, n)
         IN  [data |-> head \o SubSeq(buf, 1, size) \o tail,
              size |-> Max(f.size, offset + size)]

\* truncate(path, size) on file f
Ftruncate(f, size) ==
    [data |-> SubSeq(f.data, 1, Min(Len(f.data), size)), size |-> size]

Log(w, line) == [w EXCEPT !.err = Append(@, line)]

\* open/fopen/creat/opendir return the lowest descriptor not in use; 0, 1 and
\* 2 are the standard streams
LowestFree(fds) ==
    CHOOSE n \in 3..(3 + Cardinality(DOMAIN fds)) :
        n \notin DOMAIN fds /\ \A m \in 3..(n - 1) : m \in DOMAIN fds

\* the descriptor table after path p has been opened / after close(fd)
OpenFd(w, p) == [w EXCEPT !.fds = (LowestFree(@) :> p) @@ @, !.opens = @ + 1]
CloseFd(w, fd) == [w EXCEPT !.fds = [d \in DOMAIN @ \ {fd} |-> @[d]]]

(***************************************************************************)
(* translate_path, get_backup_path                                         *)
(***************************************************************************)
translate_path(path) == Snprintf(MAX_PATH, storage_path \o path)

\* the last component of original_path
Basename(original_path) ==
    SubSeq(original_path, Strrchr(original_path) + 1, Len(original_path))

\* tv_sec is the clock at the time of the call
get_backup_path(original_path, tv_sec) ==
    Snprintf(MAX_PATH, backup_path \o "/" \o Basename(original_path) \o "."
                         \o FormatLong(tv_sec) \o ".backup")

(***************************************************************************)
(* create_jit_backup: [w |-> the world afterwards, ret |-> 0 or -1,        *)
(*                     dst |-> the backup entry written, "" when none]     *)
(***************************************************************************)
\* create_jit_backup with "st.st_size >= JIT_BACKUP_MAX_SIZE"
create_jit_backup_ge(w, tv_sec, source_path) ==
    IF ~Exists(w, source_path)
    THEN [w |-> w, ret |-> -1, dst |-> ""]
    ELSE IF w.files[source_path].size >= JIT_BACKUP_MAX_SIZE
    THEN [w |-> Log(w, "Skipping backup"), ret |-> 0, dst |-> ""]
    ELSE LET dst == get_backup_path(source_path, tv_sec)
         IN  IF ~CanCreate(w, dst)
             THEN [w |-> w, ret |-> -1, dst |-> ""]
             ELSE LET opened == Put(w.files, dst, File(<< >>))
                      copied == IF w.copy_ok
                                THEN Put(opened, dst, opened[source_path])
                                ELSE opened
                  IN  [w   |-> Log([w EXCEPT
                                     !.files = copied,
                                     !.stats.backups_created = @ + 1],
                                   "JIT Backup created"),
                       ret |-> 0,
                       dst |-> dst]

\* create_jit_backup without fclose(src) when the backup entry cannot be opened
create_jit_backup_leak(w, tv_sec, source_path) ==
    IF ~Exists(w, source_path)
    THEN [w |-> w, ret |-> -1, dst |-> ""]
    ELSE IF w.files[source_path].size > JIT_BACKUP_MAX_SIZE
    THEN [w |-> Log(w, "Skipping backup"), ret |-> 0, dst |-> ""]
    ELSE LET dst == get_backup_path(source_path, tv_sec)
             src == LowestFree(w.fds)
             w_src == OpenFd(w, source_path)
             dstfd == LowestFree(w_src.fds)
             w_dst == OpenFd(w_src, dst)
         IN  IF ~Exists(w, source_path)
             THEN [w |-> w, ret |-> -1, dst |-> ""]
             ELSE IF ~CanCreate(w, dst)
             THEN [w |-> w_src, ret |-> -1, dst |-> ""]
             ELSE \* fopen(dst, "wb") creates or truncates dst before the
                  \* first fread of the source
                  LET opened == Put(w.files, dst, File(<< >>))
                      \* an fread or fwrite that fails ends the loop
                      copied == IF w.copy_ok
                                THEN Put(opened, dst, opened[source_path])
                                ELSE opened
                      closed == CloseFd(CloseFd(w_dst, src), dstfd)
                  IN  [w   |-> Log([closed EXCEPT
                                     !.files = copied,
                                     !.stats.backups_created = @ + 1],
                                   "JIT Backup created"),
                       ret |-> 0,
                       dst |-> dst]

create_jit_backup(w, tv_sec, source_path) ==
    IF ~Exists(w, source_path)
    THEN [w |-> w, ret |-> -1, dst |-> ""]
    ELSE IF w.files[source_path].size > JIT_BACKUP_MAX_SIZE
    THEN [w |-> Log(w, "Skipping backup"), ret |-> 0, dst |-> ""]
    ELSE LET dst == get_backup_path(source_path, tv_sec)
             src == LowestFree(w.fds)
             w_src == OpenFd(w, source_path)
             dstfd == LowestFree(w_src.fds)
             w_dst == OpenFd(w_src, dst)
         IN  IF ~Exists(w, source_path)
             THEN [w |-> w, ret |-> -1, dst |-> ""]
             ELSE IF ~CanCreate(w, dst)
             THEN [w |-> CloseFd(w_src, src), ret |-> -1, dst |-> ""]
             ELSE \* fopen(dst, "wb") creates or truncates dst before the
                  \* first fread of the source
                  LET opened == Put(w.files, dst, File(<< >>))
                      \* an fread or fwrite that fails ends the loop
                      copied == IF w.copy_ok
                                THEN Put(opened, dst, opened[source_path])
                                ELSE opened
                      closed == CloseFd(CloseFd(w_dst, src), dstfd)
                  IN  [w   |-> Log([closed EXCEPT
                                     !.files = copied,
                                     !.stats.backups_created = @ + 1],
                                   "JIT Backup created"),
                       ret |-> 0,
                       dst |-> dst]

(***************************************************************************)
(* detect_ransomware: [w |-> the world afterwards, ret |-> 0 or -EIO]      *)
(***************************************************************************)
\* detect_ransomware with the entropy test ahead of the whitelist
detect_ransomware_entropy_first(w, db, buffer, len) ==
    LET w1 == [w EXCEPT !.stats.total_writes = @ + 1]
        wl == is_whitelisted_file(db, buffer, len)
        w2 == [w1 EXCEPT !.err = @ \o wl.err]
    IN  IF RatGT(Entropy(buffer, len), ENTROPY_THRESHOLD)
        THEN [w   |-> Log([w2 EXCEPT !.stats.blocked_writes = @ + 1],
                          "RANSOMWARE DETECTED"),
              ret |-> -EIO]
        ELSE [w |-> w2, ret |-> 0]

\* detect_ransomware with "entropy >= ENTROPY_THRESHOLD"
detect_ransomware_ge(w, db, buffer, len) ==
    LET w1 == [w EXCEPT !.stats.total_writes = @ + 1]
        wl == is_whitelisted_file(db, buffer, len)
        w2 == [w1 EXCEPT !.err = @ \o wl.err]
    IN  IF wl.safe
        THEN [w |-> w2, ret |-> 0]
        ELSE IF ~RatGT(ENTROPY_THRESHOLD, Entropy(buffer, len))
        THEN [w   |-> Log([w2 EXCEPT !.stats.blocked_writes = @ + 1],
                          "RANSOMWARE DETECTED"),
              ret |-> -EIO]
        ELSE [w |-> w2, ret |-> 0]

\* a gate that remembers: after one rejection every unsafe payload is
\* rejected
detect_ransomware_lockdown(w, db, buffer, len) ==
    LET w1 == [w EXCEPT !.stats.total_writes = @ + 1]
        wl == is_whitelisted_file(db, buffer, len)
        w2 == [w1 EXCEPT !.err = @ \o wl.err]
    IN  IF wl.safe
        THEN [w |-> w2, ret |-> 0]
        ELSE IF \/ RatGT(Entropy(buffer, len), ENTROPY_THRESHOLD)
                \/ w.stats.blocked_writes > 0
        THEN [w   |-> Log([w2 EXCEPT !.stats.blocked_writes = @ + 1],
                          "RANSOMWARE DETECTED"),
              ret |-> -EIO]
        ELSE [w |-> w2, ret |-> 0]

detect_ransomware(w, db, buffer, len) ==
    LET w1 == [w EXCEPT !.stats.total_writes = @ + 1]
        wl == is_whitelisted_file(db, buffer, len)
        w2 == [w1 EXCEPT !.err = @ \o wl.err]
    IN  IF wl.safe
        THEN [w |-> w2, ret |-> 0]
        ELSE IF RatGT(Entropy(buffer, len), ENTROPY_THRESHOLD)
        THEN [w   |-> Log([w2 EXCEPT !.stats.blocked_writes = @ + 1],
                          "RANSOMWARE DETECTED"),
              ret |-> -EIO]
        ELSE [w |-> w2, ret |-> 0]

(***************************************************************************)
(* sentinelfs_write: [w, ret, full_path |-> the concrete path acted on,    *)
(*                    jit |-> what the backup step did]                    *)
(***************************************************************************)
NoJit == [called |-> FALSE, ret |-> 0, dst |-> ""]

\* sentinelfs_write returning early, before the backup step and the gate,
\* when there is nothing to write
sentinelfs_write_skip_empty(w, db, tv_sec, path, buf, size, offset) ==
    LET full_path == translate_path(path)
        attempt == /\ offset = 0
                   /\ Exists(w, full_path)
                   /\ w.files[full_path].size > 0
        b  == create_jit_backup(w, tv_sec, full_path)
        w1 == IF attempt THEN b.w ELSE w
        jit == IF attempt
               THEN [called |-> TRUE, ret |-> b.ret, dst |-> b.dst]
               ELSE NoJit
        d  == detect_ransomware(w1, db, buf, size)
    IN  IF size = 0
        THEN [w |-> w, ret |-> 0, full_path |-> full_path, jit |-> NoJit]
        ELSE IF d.ret # 0
        THEN [w |-> d.w, ret |-> d.ret, full_path |-> full_path, jit |-> jit]
        ELSE IF ~Exists(d.w, full_path)
        THEN [w |-> d.w, ret |-> -ENOENT, full_path |-> full_path, jit |-> jit]
        ELSE [w   |-> [d.w EXCEPT !.files[full_path] =
                                     Pwrite(@, buf, size, offset)],
              ret |-> size, full_path |-> full_path, jit |-> jit]

\* sentinelfs_write without the "offset == 0" test ahead of the backup step
sentinelfs_write_any_offset(w, db, tv_sec, path, buf, size, offset) ==
    LET full_path == translate_path(path)
        attempt == /\ Exists(w, full_path)
                   /\ w.files[full_path].size > 0
        b  == create_jit_backup(w, tv_sec, full_path)
        w1 == IF attempt THEN b.w ELSE w
        jit == IF attempt
               THEN [called |-> TRUE, ret |-> b.ret, dst |-> b.dst]
               ELSE NoJit
        d  == detect_ransomware(w1, db, buf, size)
    IN  IF d.ret # 0
        THEN [w |-> d.w, ret |-> d.ret, full_path |-> full_path, jit |-> jit]
        ELSE IF ~Exists(d.w, full_path)
        THEN [w |-> d.w, ret |-> -ENOENT, full_path |-> full_path, jit |-> jit]
        ELSE [w   |-> [d.w EXCEPT !.files[full_path] =
                                     Pwrite(@, buf, size, offset)],
              ret |-> size, full_path |-> full_path, jit |-> jit]

sentinelfs_write(w, db, tv_sec, path, buf, size, offset) ==
    LET full_path == translate_path(path)
        attempt == /\ offset = 0
                   /\ Exists(w, full_path)
                   /\ w.files[full_path].size > 0
        b  == create_jit_backup(w, tv_sec, full_path)
        w1 == IF attempt THEN b.w ELSE w
        jit == IF attempt
               THEN [called |-> TRUE, ret |-> b.ret, dst |-> b.dst]
               ELSE NoJit
        d  == detect_ransomware(w1, db, buf, size)
    IN  IF d.ret # 0
        THEN [w |-> d.w, ret |-> d.ret, full_path |-> full_path, jit |-> jit]
        ELSE IF ~Exists(d.w, full_path)
        THEN [w |-> d.w, ret |-> -ENOENT, full_path |-> full_path, jit |-> jit]
        ELSE LET fd == LowestFree(d.w.fds)
                 w_fd == OpenFd(d.w, full_path)
                 written == [w_fd EXCEPT !.files[full_path] =
                                            Pwrite(@, buf, size, offset)]
             IN  [w   |-> CloseFd(written, fd),
                  ret |-> size, full_path |-> full_path, jit |-> jit]

(***************************************************************************)
(* The pass-through callbacks that change the storage                      *)
(***************************************************************************)
EEXIST == 17
EISDIR == 21
ENOTEMPTY == 39

sentinelfs_create(w, path) ==
    LET full_path == translate_path(path)
    IN  IF full_path \in w.dirs
        THEN [w |-> w, ret |-> -EISDIR, full_path |-> full_path]
        ELSE IF ~CanCreate(w, full_path)
        THEN [w |-> w, ret |-> -ENOENT, full_path |-> full_path]
        ELSE LET fd == LowestFree(w.fds)
                 w_fd == OpenFd([w EXCEPT !.files = Put(@, full_path,
                                                      File(<< >>))],
                              full_path)
             IN  [w |-> CloseFd(w_fd, fd), ret |-> 0, full_path |-> full_path]

sentinelfs_unlink(w, path) ==
    LET full_path == translate_path(path)
    IN  IF ~Exists(w, full_path)
        THEN [w |-> w, ret |-> -ENOENT, full_path |-> full_path]
        ELSE [w |-> [w EXCEPT !.files = Remove(@, full_path)],
              ret |-> 0, full_path |-> full_path]

sentinelfs_truncate(w, path, size) ==
    LET full_path == translate_path(path)
    IN  IF ~Exists(w, full_path)
        THEN [w |-> w, ret |-> -ENOENT, full_path |-> full_path]
        ELSE [w |-> [w EXCEPT !.files[full_path] = Ftruncate(@, size)],
              ret |-> 0, full_path |-> full_path]

sentinelfs_mkdir(w, path) ==
    LET full_path == translate_path(path)
    IN  IF full_path \in w.dirs \/ Exists(w, full_path)
        THEN [w |-> w, ret |-> -EEXIST, full_path |-> full_path]
        ELSE IF Dirname(full_path) \notin w.dirs
        THEN [w |-> w, ret |-> -ENOENT, full_path |-> full_path]
        ELSE [w |-> [w EXCEPT !.dirs = @ \cup {full_path}],
              ret |-> 0, full_path |-> full_path]

sentinelfs_rmdir(w, path) ==
    LET full_path == translate_path(path)
    IN  IF full_path \notin w.dirs
        THEN [w |-> w, ret |-> -ENOENT, full_path |-> full_path]
        ELSE IF \E q \in DOMAIN w.files \cup w.dirs : Dirname(q) = full_path
        THEN [w |-> w, ret |-> -ENOTEMPTY, full_path |-> full_path]
        ELSE [w |-> [w EXCEPT !.dirs = @ \ {full_path}],
              ret |-> 0, full_path |-> full_path]

(***************************************************************************)
(* The callbacks that read the storage                                     *)
(***************************************************************************)
ENOTDIR == 20

sentinelfs_open(w, path) ==
    LET full_path == translate_path(path)
        fd == LowestFree(w.fds)
    IN  IF ~Exists(w, full_path) /\ full_path \notin w.dirs
        THEN [w |-> w, ret |-> -ENOENT, full_path |-> full_path]
        ELSE [w |-> CloseFd(OpenFd(w, full_path), fd), ret |-> 0,
              full_path |-> full_path]

\* pread on a directory fails with EISDIR; past the end of a file it reads
\* nothing
sentinelfs_read(w, path, size, offset) ==
    LET full_path == translate_path(path)
        fd == LowestFree(w.fds)
        w_fd == OpenFd(w, full_path)
    IN  IF full_path \in w.dirs
        THEN [w |-> CloseFd(w_fd, fd), ret |-> -EISDIR, full_path |-> full_path]
        ELSE IF ~Exists(w, full_path)
        THEN [w |-> w, ret |-> -ENOENT, full_path |-> full_path]
        ELSE [w |-> CloseFd(w_fd, fd),
              ret |-> Max(0, Min(size, w.files[full_path].size - offset)),
              full_path |-> full_path]

sentinelfs_readdir(w, path) ==
    LET full_path == translate_path(path)
        dp == LowestFree(w.fds)
    IN  IF Exists(w, full_path)
        THEN [w |-> w, ret |-> -ENOTDIR, full_path |-> full_path]
        ELSE IF full_path \notin w.dirs
        THEN [w |-> w, ret |-> -ENOENT, full_path |-> full_path]
        ELSE [w |-> CloseFd(OpenFd(w, full_path), dp), ret |-> 0,
              full_path |-> full_path]

(***************************************************************************)
(* State                                                                   *)
(***************************************************************************)
VARIABLES
    files,      \* the regular files of the underlying storage
    dirs,       \* its directories
    stats,      \* total_writes, blocked_writes, backups_created
    stderr,     \* the diagnostics of the most recent callback
    now,        \* the clock, in seconds
    magic_db,   \* the database behind global_ctx->magic_cookie
    ncalls,     \* callbacks served so far
    last,       \* the most recent callback: its arguments and its result
    thr,        \* the worker threads: where each is in sentinelfs_write
    fds,        \* the descriptor table of the process: descriptor -> path
    held        \* history: <<path, contents>> for the contents that the
                \* files written under SpecCopy have held so far

vars == <<files, dirs, stats, stderr, now, magic_db, ncalls, last, thr, fds,
          held>>

\* the worker threads of the multithreaded fuse_main loop
Threads == {1, 2}

\* pos and dst: the stream position of the copy loop and the backup entry
Idle == [pc |-> "idle", path |-> "", full_path |-> "", buf |-> << >>,
         size |-> 0, offset |-> 0, reg |-> 0, ret |-> 0, pos |-> 0,
         dst |-> ""]

\* err and opens collect what one callback logs and how many descriptors it
\* opens; copy_ok: the storage serves every fread and fwrite of the backup
\* copy loop
World == [files |-> files, dirs |-> dirs, stats |-> stats, err |-> << >>,
          fds |-> fds, opens |-> 0, copy_ok |-> TRUE]

NoCall == [op |-> "none", path |-> "", full_path |-> "", buf |-> << >>,
           size |-> 0, offset |-> 0, ret |-> 0, jit |-> NoJit, opens |-> 0,
           copy_ok |-> TRUE]

\* The storage directory holds three text files when the filesystem is
\* mounted; sentinelfs_init has created the backup directory and loaded the
\* magic database.
Init ==
    /\ files = (translate_path(DocPath) :> File(Text100))
                 @@ (translate_path(DeepFile) :> File(Text100))
                 @@ (translate_path(LongNamed) :> File(Text100))
    /\ dirs = {storage_path, backup_path, storage_path \o DeepDir}
    /\ stats = [total_writes |-> 0, blocked_writes |-> 0, backups_created |-> 0]
    /\ stderr = << >>
    /\ now = Epoch
    /\ magic_db \in MagicDbs
    /\ ncalls = 0
    /\ last = NoCall
    /\ thr = [t \in Threads |-> Idle]
    /\ fds = << >>
    /\ held = {}

\* the callback returned r
Return(r, call) ==
    /\ files' = r.w.files
    /\ dirs' = r.w.dirs
    /\ stats' = r.w.stats
    /\ stderr' = r.w.err
    /\ ncalls' = ncalls + 1
    /\ fds' = r.w.fds
    /\ last' = [call EXCEPT !.ret = r.ret, !.full_path = r.full_path,
                            !.opens = r.w.opens]
    /\ UNCHANGED <<now, magic_db, thr, held>>

\* tv_sec is what gettimeofday() returns when the backup step reads the
\* clock; now is the latest reading.  copy_ok is FALSE when the storage fails
\* an fread or fwrite of the copy loop (an I/O error, a full disk).
Write(path, buf, offset, tv_sec, copy_ok) ==
    /\ ncalls < MaxCalls
    /\ (tv_sec # now \/ ~copy_ok) =>
          /\ offset = 0
          /\ Exists(World, translate_path(path))
          /\ files[translate_path(path)].size > 0
    /\ \E r \in {sentinelfs_write([World EXCEPT !.copy_ok = copy_ok], magic_db,
                                  tv_sec, path, buf, Len(buf), offset)} :
           /\ ~r.jit.called => tv_sec = now
           /\ r.jit.dst = "" => copy_ok
           /\ files' = r.w.files
           /\ dirs' = r.w.dirs
           /\ stats' = r.w.stats
           /\ stderr' = r.w.err
           /\ fds' = r.w.fds
           /\ now' = tv_sec
           /\ ncalls' = ncalls + 1
           /\ last' = [NoCall EXCEPT !.op = "write", !.path = path, !.buf = buf,
                                     !.size = Len(buf), !.offset = offset,
                                     !.ret = r.ret, !.full_path = r.full_path,
                                     !.jit = r.jit, !.opens = r.w.opens,
                                     !.copy_ok = copy_ok]
           /\ UNCHANGED <<magic_db, thr, held>>

Create(path) ==
    /\ ncalls < MaxCalls
    /\ \E r \in {sentinelfs_create(World, path)} :
          Return(r, [NoCall EXCEPT !.op = "create", !.path = path])

Unlink(path) ==
    /\ ncalls < MaxCalls
    /\ \E r \in {sentinelfs_unlink(World, path)} :
          Return(r, [NoCall EXCEPT !.op = "unlink", !.path = path])

Truncate(path, size) ==
    /\ ncalls < MaxCalls
    /\ \E r \in {sentinelfs_truncate(World, path, size)} :
          Return(r, [NoCall EXCEPT !.op = "truncate", !.path = path, !.size = size])

Mkdir(path) ==
    /\ ncalls < MaxCalls
    /\ \E r \in {sentinelfs_mkdir(World, path)} :
          Return(r, [NoCall EXCEPT !.op = "mkdir", !.path = path])

Rmdir(path) ==
    /\ ncalls < MaxCalls
    /\ \E r \in {sentinelfs_rmdir(World, path)} :
          Return(r, [NoCall EXCEPT !.op = "rmdir", !.path = path])

Open(path) ==
    /\ ncalls < MaxCalls
    /\ \E r \in {sentinelfs_open(World, path)} :
          Return(r, [NoCall EXCEPT !.op = "open", !.path = path])

Read(path, size, offset) ==
    /\ ncalls < MaxCalls
    /\ \E r \in {sentinelfs_read(World, path, size, offset)} :
          Return(r, [NoCall EXCEPT !.op = "read", !.path = path,
                                   !.size = size, !.offset = offset])

Readdir(path) ==
    /\ ncalls < MaxCalls
    /\ \E r \in {sentinelfs_readdir(World, path)} :
          Return(r, [NoCall EXCEPT !.op = "readdir", !.path = path])

TruncateSizes == {0, JIT_BACKUP_MAX_SIZE, JIT_BACKUP_MAX_SIZE + 1}

Next ==
    \/ \E c \in WriteCalls, tv_sec \in now..Min(now + 1, Epoch + MaxTicks),
          copy_ok \in BOOLEAN :
          Write(c[1], c[2], c[3], tv_sec, copy_ok)
    \/ \E path \in FilePaths \ {DocPath} : Create(path)
    \/ \E path \in FilePaths \ {SecretPath} : Unlink(path)
    \/ \E size \in TruncateSizes : Truncate(DocPath, size)
    \/ \E path \in DirPaths : Mkdir(path)
    \/ \E path \in DirPaths : Rmdir(path)
    \/ \E path \in {DocPath} : Open(path)
    \/ \E path \in {DocPath, BackupDirVPath} : Read(path, 100, 0)
    \/ \E path \in {BackupDirVPath} : Readdir(path)

Spec == Init /\ [][Next]_vars

(***************************************************************************)
(* sentinelfs_write on parallel threads.  fuse_main serves requests from   *)
(* several worker threads; stats is shared and each "stats.x++" is a plain *)
(* read of the counter followed by a plain write of the value read plus    *)
(* one.  A thread's pc names the statement it executes next.               *)
(***************************************************************************)
ParCalls == {DocPath, SecretPath} \X {Text100, Rand256} \X Offsets

\* the counter the thread at pc is about to increment
Counter(pc) ==
    CASE pc \in {"bk_load", "bk_store"} -> "backups_created"
      [] pc \in {"tw_load", "tw_store"} -> "total_writes"
      [] pc \in {"bw_load", "bw_store"} -> "blocked_writes"

\* the callback is entered: translate_path
PStart(t, path, buf, offset) ==
    /\ ncalls < MaxParCalls
    /\ thr[t].pc = "idle"
    /\ thr' = [thr EXCEPT ![t] = [Idle EXCEPT
                  !.pc = "backup", !.path = path,
                  !.full_path = translate_path(path),
                  !.buf = buf, !.size = Len(buf), !.offset = offset]]
    /\ ncalls' = ncalls + 1
    /\ UNCHANGED <<files, dirs, stats, stderr, now, magic_db, last, fds,
                 held>>

\* the backup step up to "stats.backups_created++"
PBackup(t) ==
    /\ thr[t].pc = "backup"
    /\ LET full_path == thr[t].full_path
           attempt == /\ thr[t].offset = 0
                      /\ full_path \in DOMAIN files
                      /\ files[full_path].size > 0
           b == create_jit_backup(World, now, full_path)
       IN  IF attempt
           THEN /\ files' = b.w.files
                /\ stderr' = IF b.dst = "" THEN stderr \o b.w.err ELSE stderr
                /\ thr' = [thr EXCEPT ![t].pc =
                              IF b.dst = "" THEN "tw_load" ELSE "bk_load"]
           ELSE /\ thr' = [thr EXCEPT ![t].pc = "tw_load"]
                /\ UNCHANGED <<files, stderr>>
    /\ UNCHANGED <<dirs, stats, now, magic_db, ncalls, last, fds,
                 held>>

\* "stats.x++", first half: read the counter
PLoad(t) ==
    /\ thr[t].pc \in {"bk_load", "tw_load", "bw_load"}
    /\ thr' = [thr EXCEPT
                  ![t].reg = stats[Counter(thr[t].pc)],
                  ![t].pc = CASE thr[t].pc = "bk_load" -> "bk_store"
                              [] thr[t].pc = "tw_load" -> "tw_store"
                              [] thr[t].pc = "bw_load" -> "bw_store"]
    /\ UNCHANGED <<files, dirs, stats, stderr, now, magic_db, ncalls, last, fds,
                 held>>

\* "stats.x++", second half: write the value read plus one; then the
\* statement after it
PStore(t) ==
    /\ thr[t].pc \in {"bk_store", "tw_store", "bw_store"}
    /\ stats' = [stats EXCEPT ![Counter(thr[t].pc)] = thr[t].reg + 1]
    /\ CASE thr[t].pc = "bk_store" ->
              /\ stderr' = Append(stderr, "JIT Backup created")
              /\ thr' = [thr EXCEPT ![t].pc = "tw_load"]
         [] thr[t].pc = "tw_store" ->
              /\ stderr' = stderr
              /\ thr' = [thr EXCEPT ![t].pc = "gate"]
         [] thr[t].pc = "bw_store" ->
              /\ stderr' = Append(stderr, "RANSOMWARE DETECTED")
              /\ thr' = [thr EXCEPT ![t] = [Idle EXCEPT !.ret = -EIO]]
    /\ UNCHANGED <<files, dirs, now, magic_db, ncalls, last, fds,
                 held>>

\* detect_ransomware after "stats.total_writes++": whitelist, then entropy
PGate(t) ==
    /\ thr[t].pc = "gate"
    /\ LET wl == is_whitelisted_file(magic_db, thr[t].buf, thr[t].size)
           blocked == /\ ~wl.safe
                      /\ RatGT(Entropy(thr[t].buf, thr[t].size),
                               ENTROPY_THRESHOLD)
       IN  /\ stderr' = stderr \o wl.err
           /\ thr' = [thr EXCEPT ![t].pc =
                         IF blocked THEN "bw_load" ELSE "pwrite"]
    /\ UNCHANGED <<files, dirs, stats, now, magic_db, ncalls, last, fds,
                 held>>

\* the write is allowed: open, pwrite, close
PPwrite(t) ==
    /\ thr[t].pc = "pwrite"
    /\ LET full_path == thr[t].full_path
       IN  IF full_path \notin DOMAIN files
           THEN /\ thr' = [thr EXCEPT ![t] = [Idle EXCEPT !.ret = -ENOENT]]
                /\ UNCHANGED files
           ELSE /\ files' = [files EXCEPT ![full_path] =
                                Pwrite(@, thr[t].buf, thr[t].size,
                                       thr[t].offset)]
                /\ thr' = [thr EXCEPT ![t] = [Idle EXCEPT !.ret = thr[t].size]]
    /\ UNCHANGED <<dirs, stats, stderr, now, magic_db, ncalls, last, fds,
                 held>>

NextPar ==
    \/ \E t \in Threads, c \in ParCalls : PStart(t, c[1], c[2], c[3])
    \/ \E t \in Threads : PBackup(t)
    \/ \E t \in Threads : PLoad(t)
    \/ \E t \in Threads : PStore(t)
    \/ \E t \in Threads : PGate(t)
    \/ \E t \in Threads : PPwrite(t)

SpecPar == Init /\ [][NextPar]_vars

(***************************************************************************)
(* The copy loop of create_jit_backup, chunk by chunk.  SpecCopy runs the  *)
(* same two threads on one file that is larger than the buffer of the      *)
(* loop: thread 1 overwrites the file from offset 0, which backs it up     *)
(* first, and thread 2 patches it across the chunk boundary.  Each fread   *)
(* with its fwrite is one step; the counters are incremented with PLoad    *)
(* and PStore as under SpecPar.                                            *)
(***************************************************************************)
\* char buffer[8192]
CHUNK == 8192

MaxCopyCalls == 2

BigPath == "/big.bin"
BigLen == CHUNK + 100
Big == [i \in 1..BigLen |-> 65]

\* a write at SpanOffset of 100 bytes changes the end of the first chunk and
\* the start of the second
SpanOffset == CHUNK - 50

CopyCalls(t) ==
    IF t = 1 THEN {<<BigPath, Text100, 0>>}
    ELSE {<<BigPath, Text100, SpanOffset>>}

InitCopy ==
    /\ files = (translate_path(BigPath) :> File(Big))
    /\ dirs = {storage_path, backup_path}
    /\ stats = [total_writes |-> 0, blocked_writes |-> 0, backups_created |-> 0]
    /\ stderr = << >>
    /\ now = Epoch
    /\ magic_db \in MagicDbs
    /\ ncalls = 0
    /\ last = NoCall
    /\ thr = [t \in Threads |-> Idle]
    /\ fds = << >>
    /\ held = {<<translate_path(BigPath), File(Big)>>}

\* fread(buffer, 1, n, src) at stream position pos of file f
Fread(f, pos, n) ==
    LET have == Min(Len(f.data), pos + n)
    IN  SubSeq(f.data, pos + 1, have)
          \o [i \in 1..(pos + n - Max(have, pos)) |-> 0]

\* the callback is entered: translate_path
CStart(t, path, buf, offset) ==
    /\ ncalls < MaxCopyCalls
    /\ thr[t].pc = "idle"
    /\ thr' = [thr EXCEPT ![t] = [Idle EXCEPT
                  !.pc = "backup", !.path = path,
                  !.full_path = translate_path(path),
                  !.buf = buf, !.size = Len(buf), !.offset = offset]]
    /\ ncalls' = ncalls + 1
    /\ UNCHANGED <<files, dirs, stats, stderr, now, magic_db, last, fds, held>>

\* the backup step up to the copy loop: the test of sentinelfs_write, then
\* stat, the size test, fopen(src, "rb") and fopen(dst, "wb")
COpen(t) ==
    /\ thr[t].pc = "backup"
    /\ LET full_path == thr[t].full_path
           attempt == /\ thr[t].offset = 0
                      /\ full_path \in DOMAIN files
                      /\ files[full_path].size > 0
           dst == get_backup_path(full_path, now)
       IN  IF ~attempt
           THEN /\ thr' = [thr EXCEPT ![t].pc = "tw_load"]
                /\ UNCHANGED <<files, stderr>>
           ELSE IF files[full_path].size > JIT_BACKUP_MAX_SIZE
           THEN /\ thr' = [thr EXCEPT ![t].pc = "tw_load"]
                /\ stderr' = Append(stderr, "Skipping backup")
                /\ UNCHANGED files
           ELSE IF ~CanCreate(World, dst)
           THEN /\ thr' = [thr EXCEPT ![t].pc = "tw_load"]
                /\ UNCHANGED <<files, stderr>>
           ELSE /\ files' = Put(files, dst, File(<< >>))
                /\ thr' = [thr EXCEPT ![t].pc = "copy", ![t].pos = 0,
                                      ![t].dst = dst]
                /\ UNCHANGED stderr
    /\ UNCHANGED <<dirs, stats, now, magic_db, ncalls, last, fds, held>>

\* one turn of "while ((bytes = fread(...)) > 0) fwrite(...)"; when fread
\* returns 0 the two fclose calls
CCopy(t) ==
    /\ thr[t].pc = "copy"
    /\ LET f == files[thr[t].full_path]
           pos == thr[t].pos
           bytes == Min(CHUNK, Max(0, f.size - pos))
       IN  IF bytes > 0
           THEN /\ files' = [files EXCEPT ![thr[t].dst] =
                                Pwrite(@, Fread(f, pos, bytes), bytes, pos)]
                /\ thr' = [thr EXCEPT ![t].pos = pos + bytes]
           ELSE /\ thr' = [thr EXCEPT ![t].pc = "bk_load"]
                /\ UNCHANGED files
    /\ UNCHANGED <<dirs, stats, stderr, now, magic_db, ncalls, last, fds, held>>

\* the write is allowed: open, pwrite, close; held records the contents
\* stored
CPwrite(t) ==
    /\ thr[t].pc = "pwrite"
    /\ LET full_path == thr[t].full_path
       IN  IF full_path \notin DOMAIN files
           THEN /\ thr' = [thr EXCEPT ![t] = [Idle EXCEPT !.ret = -ENOENT]]
                /\ UNCHANGED <<files, held>>
           ELSE /\ files' = [files EXCEPT ![full_path] =
                                Pwrite(@, thr[t].buf, thr[t].size,
                                       thr[t].offset)]
                /\ held' = held \cup {<<full_path, files'[full_path]>>}
                /\ thr' = [thr EXCEPT ![t] = [Idle EXCEPT !.ret = thr[t].size]]
    /\ UNCHANGED <<dirs, stats, stderr, now, magic_db, ncalls, last, fds>>

NextCopy ==
    \/ \E t \in Threads : \E c \in CopyCalls(t) :
          CStart(t, c[1], c[2], c[3])
    \/ \E t \in Threads : COpen(t)
    \/ \E t \in Threads : CCopy(t)
    \/ \E t \in Threads : PLoad(t)
    \/ \E t \in Threads : PStore(t)
    \/ \E t \in Threads : PGate(t)
    \/ \E t \in Threads : CPwrite(t)

SpecCopy == InitCopy /\ [][NextCopy]_vars

(***************************************************************************)
(* Vocabulary of the properties                                            *)
(***************************************************************************)
\* this step is a callback returning
CallStep == ncalls' = ncalls + 1
WriteStep == CallStep /\ last'.op = "write"

\* line is among the diagnostics
Logged(err, line) == \E i \in 1..Len(err) : err[i] = line

\* the gate rejected the most recent write
Rejected(err) == Logged(err, "RANSOMWARE DETECTED")

\* the payload starts with "#!"
Shebang(buf, size) == size >= 2 /\ buf[1] = 35 /\ buf[2] = 33

\* file f holds buf at offset
Holds(f, buf, size, offset) ==
    /\ f.size >= offset + size
    /\ \A i \in 1..size : ByteAt(f, offset + i) = buf[i]

\* entropy strictly above 7.5 bits per byte
Above75(e) == 2 * e.num > 15 * e.den

(***************************************************************************)
(* C1: a write that returns -EIO leaves the target as it was: a target     *)
(* that existed keeps its bytes, a target that did not exist still does    *)
(* not exist.                                                              *)
(***************************************************************************)
C1_BlockedWriteLeavesTarget ==
    [][ (WriteStep /\ last'.ret = -EIO) =>
          LET t == last'.full_path
          IN  /\ (t \in DOMAIN files') = (t \in DOMAIN files)
              /\ t \in DOMAIN files => SameBytes(files'[t], files[t]) ]_vars

(***************************************************************************)
(* C2: a payload that is_whitelisted_file accepts is never rejected,       *)
(* whatever its entropy: blocked_writes stays and the write reaches the    *)
(* storage.                                                                *)
(***************************************************************************)
C2_SafeNeverBlocked ==
    [][ (WriteStep /\ is_whitelisted_file(magic_db, last'.buf, last'.size).safe) =>
          /\ ~Rejected(stderr')
          /\ last'.ret # -EIO
          /\ stats'.blocked_writes = stats.blocked_writes
          /\ IF last'.full_path \in DOMAIN files
             THEN /\ last'.ret = last'.size
                  /\ Holds(files'[last'.full_path], last'.buf, last'.size,
                           last'.offset)
             ELSE last'.ret = -ENOENT ]_vars

\* a whitelisted payload with entropy above the threshold has been written
C2_Witness ==
    /\ last.op = "write"
    /\ is_whitelisted_file(magic_db, last.buf, last.size).safe
    /\ Above75(Entropy(last.buf, last.size))
    /\ last.ret = last.size
    /\ last.size > 0

(***************************************************************************)
(* C3: the gate rejects a write exactly when the payload is not            *)
(* whitelisted and its entropy is strictly above 7.5; a rejection returns  *)
(* -EIO and adds exactly one to blocked_writes, any other write leaves     *)
(* blocked_writes alone.                                                   *)
(***************************************************************************)
C3_RejectIffUnsafeAndAbove ==
    [][ WriteStep =>
          LET safe == is_whitelisted_file(magic_db, last'.buf, last'.size).safe
              e    == Entropy(last'.buf, last'.size)
          IN  /\ Rejected(stderr') <=> (~safe /\ Above75(e))
              /\ Rejected(stderr') =>
                    /\ last'.ret = -EIO
                    /\ stats'.blocked_writes = stats.blocked_writes + 1
              /\ ~Rejected(stderr') =>
                    /\ last'.ret # -EIO
                    /\ stats'.blocked_writes = stats.blocked_writes ]_vars

\* a payload that is not whitelisted and whose entropy is exactly 7.5 has
\* been written to the storage
C3_Witness ==
    /\ last.op = "write"
    /\ ~is_whitelisted_file(magic_db, last.buf, last.size).safe
    /\ LET e == Entropy(last.buf, last.size)
       IN  2 * e.num = 15 * e.den
    /\ last.ret = last.size
    /\ stats.blocked_writes = 0

(***************************************************************************)
(* C5: an offset-0 write to a file that exists, is not empty and is no     *)
(* larger than the size cap either produces a backup entry or logs a       *)
(* diagnostic of the backup step; a backup is never omitted silently.      *)
(***************************************************************************)
BackupDiagnostics == {"Skipping backup", "JIT Backup created", "Backup failed"}

C5_BackupOrDiagnostic ==
    [][ (/\ WriteStep
         /\ last'.offset = 0
         /\ last'.full_path \in DOMAIN files
         /\ files[last'.full_path].size > 0
         /\ files[last'.full_path].size <= JIT_BACKUP_MAX_SIZE) =>
          \/ last'.jit.dst \in DOMAIN files'
          \/ \E i \in 1..Len(stderr') : stderr'[i] \in BackupDiagnostics ]_vars

(***************************************************************************)
(* C6 as claimed: a payload of at least two bytes that starts with "#!"    *)
(* is allowed whatever its entropy and whatever the classifier does,       *)
(* failure of the classifier call included.                                *)
(***************************************************************************)
C6_ShebangAlwaysAllowed ==
    [][ (WriteStep /\ Shebang(last'.buf, last'.size)) =>
          ~Rejected(stderr') /\ last'.ret # -EIO ]_vars

(***************************************************************************)
(* C6 amended: a payload of at least two bytes that starts with "#!" is    *)
(* allowed whatever its entropy and whatever media type the classifier     *)
(* reports; when the classifier call fails the payload is not whitelisted  *)
(* and is rejected exactly when its entropy is above 7.5.                  *)
(***************************************************************************)
C6_ShebangAllowedUnlessClassifierFails ==
    [][ (WriteStep /\ Shebang(last'.buf, last'.size)) =>
          IF magic_buffer(magic_db, last'.buf, last'.size) # NULL
          THEN /\ ~Rejected(stderr')
               /\ last'.ret # -EIO
               /\ stats'.blocked_writes = stats.blocked_writes
          ELSE Rejected(stderr') <=> Above75(Entropy(last'.buf, last'.size))
       ]_vars

\* a "#!" payload with entropy above the threshold, which the classifier
\* does not whitelist by type, has been written to the storage
C6_Witness ==
    /\ last.op = "write"
    /\ Shebang(last.buf, last.size)
    /\ Above75(Entropy(last.buf, last.size))
    /\ magic_buffer(magic_db, last.buf, last.size) = "application/octet-stream"
    /\ last.ret = last.size

(***************************************************************************)
(* C7: is_whitelisted_file returns true exactly when the media type starts *)
(* with "text/", or equals one of the four application types, or the       *)
(* payload starts with "#!".                                               *)
(***************************************************************************)
ExactTypes == {"application/pdf", "application/x-executable",
               "application/x-sharedlib", "application/x-shellscript"}

C7_WhitelistExact ==
    (last.op = "write" /\ magic_buffer(magic_db, last.buf, last.size) # NULL) =>
        LET mime == magic_buffer(magic_db, last.buf, last.size)
        IN  is_whitelisted_file(magic_db, last.buf, last.size).safe
              <=> \/ StartsWith(mime, "text/")
                  \/ mime \in ExactTypes
                  \/ Shebang(last.buf, last.size)

(***************************************************************************)
(* C8: every callback acts on storage_path followed by the virtual path;   *)
(* when that is longer than MAX_PATH allows, the callback fails with       *)
(* ENAMETOOLONG and leaves the storage alone.                              *)
(***************************************************************************)
ENAMETOOLONG == 36

C8_TranslateExactOrFail ==
    [][ CallStep =>
          IF Len(storage_path \o last'.path) <= MAX_PATH - 1
          THEN last'.full_path = storage_path \o last'.path
          ELSE /\ last'.ret = -ENAMETOOLONG
               /\ files' = files
               /\ dirs' = dirs ]_vars

(***************************************************************************)
(* C4: blocked_writes <= total_writes in every reachable state, the        *)
(* intermediate states of write callbacks running on parallel threads      *)
(* included.                                                               *)
(***************************************************************************)
C4_BlockedAtMostTotal == stats.blocked_writes <= stats.total_writes

(***************************************************************************)
(* Scenario D: /doc.txt holds 100 bytes of ASCII text and the first call   *)
(* writes 100 random bytes, which the classifier does not whitelist, at    *)
(* offset 0; the storage serves the reads and writes of the backup copy.   *)
(***************************************************************************)
ScenarioD ==
    /\ ncalls = 1
    /\ last.op = "write"
    /\ last.path = DocPath
    /\ last.offset = 0
    /\ last.buf = Rand100
    /\ last.copy_ok
    /\ ~is_whitelisted_file(magic_db, last.buf, last.size).safe

\* the backup entry doc.txt.<unix_seconds>.backup holds the original text
ScenarioDBackup ==
    LET entry == backup_path \o "/doc.txt." \o FormatLong(now) \o ".backup"
    IN  /\ entry \in DOMAIN files
        /\ SameBytes(files[entry], File(Text100))
        /\ stats.backups_created = 1

(***************************************************************************)
(* C9 as claimed: in scenario D the backup entry holds the original 100    *)
(* bytes, the write is rejected with -EIO, backups_created = 1 and         *)
(* blocked_writes = 1.                                                     *)
(***************************************************************************)
C9_ScenarioDBlocked ==
    ScenarioD =>
        /\ ScenarioDBackup
        /\ last.ret = -EIO
        /\ stats.blocked_writes = 1

(***************************************************************************)
(* C9 amended: in scenario D the backup entry holds the original 100       *)
(* bytes and backups_created = 1, but the gate allows the write: 100 bytes *)
(* have an entropy of at most log2(100) < 7.5, so the payload replaces the *)
(* text and blocked_writes = 0.                                            *)
(***************************************************************************)
C9_ScenarioDAllowed ==
    ScenarioD =>
        /\ ScenarioDBackup
        /\ ~Above75(Entropy(last.buf, last.size))
        /\ ~Rejected(stderr)
        /\ last.ret = 100
        /\ stats.blocked_writes = 0
        /\ SameBytes(files[translate_path(DocPath)], File(Rand100))

C9_Witness == ScenarioD /\ last.ret = 100 /\ stats.backups_created = 1

(***************************************************************************)
(* C10 as claimed: a write of an empty buffer is allowed, adds one to      *)
(* total_writes and leaves blocked_writes and backups_created alone, at    *)
(* any offset and whatever the state of the target.                        *)
(***************************************************************************)
C10_EmptyWriteCountsOnce ==
    [][ (WriteStep /\ last'.size = 0) =>
          /\ ~Rejected(stderr')
          /\ last'.ret # -EIO
          /\ stats'.total_writes = stats.total_writes + 1
          /\ stats'.blocked_writes = stats.blocked_writes
          /\ stats'.backups_created = stats.backups_created ]_vars

(***************************************************************************)
(* C10 amended: a write of an empty buffer is allowed, adds one to         *)
(* total_writes and leaves blocked_writes alone; backups_created is left   *)
(* alone unless the offset is 0 and the target exists and is not empty:    *)
(* then the backup step runs as for any other write and adds one when it   *)
(* copies the file.                                                        *)
(***************************************************************************)
C10_EmptyWriteStillBacksUp ==
    [][ (WriteStep /\ last'.size = 0) =>
          LET t == last'.full_path
              attempt == /\ last'.offset = 0
                         /\ t \in DOMAIN files
                         /\ files[t].size > 0
              copied == attempt /\ last'.jit.dst # ""
          IN  /\ ~Rejected(stderr')
              /\ last'.ret # -EIO
              /\ stats'.total_writes = stats.total_writes + 1
              /\ stats'.blocked_writes = stats.blocked_writes
              /\ last'.jit.called = attempt
              /\ stats'.backups_created =
                    stats.backups_created + (IF copied THEN 1 ELSE 0)
              /\ copied => last'.jit.dst \in DOMAIN files' ]_vars

\* an empty write at offset 0 on a file with content has made a backup
C10_Witness ==
    /\ last.op = "write"
    /\ last.size = 0
    /\ last.offset = 0
    /\ last.ret = 0
    /\ stats.total_writes = 1
    /\ stats.backups_created = 1

(***************************************************************************)
(* C11: a write attempts a backup only when its offset is 0 and the target *)
(* exists with size > 0.  A write at another offset, to a missing file or  *)
(* to an empty file enters no backup step, creates no entry, leaves every  *)
(* other file alone and leaves backups_created unchanged.                  *)
(***************************************************************************)
C11_BackupOnlyAtOffsetZeroNonEmpty ==
    [][ WriteStep =>
          LET t == last'.full_path
              eligible == /\ last'.offset = 0
                          /\ t \in DOMAIN files
                          /\ files[t].size > 0
          IN  /\ last'.jit.called <=> eligible
              /\ ~eligible =>
                    /\ stats'.backups_created = stats.backups_created
                    /\ DOMAIN files' = DOMAIN files
                    /\ \A p \in DOMAIN files \ {t} : files'[p] = files[p]
                    /\ ~Logged(stderr', "JIT Backup created") ]_vars

\* a write at offset 1 has changed a file with content and made no backup
C11_Witness ==
    /\ last.op = "write"
    /\ last.offset = 1
    /\ last.size > 0
    /\ last.ret = last.size
    /\ ~last.jit.called
    /\ stats.backups_created = 0
    /\ stats.total_writes = 1

(***************************************************************************)
(* C12: the size cap is inclusive.  An offset-0 write to a file of exactly *)
(* JIT_BACKUP_MAX_SIZE bytes is not skipped: the copy is made (it is       *)
(* missing only when the backup entry cannot be opened; the storage serves *)
(* the reads and writes of the copy).  For a file above                    *)
(* the cap no entry is created, backups_created is unchanged, "Skipping    *)
(* backup" is logged and the backup step returns 0.                        *)
(***************************************************************************)
C12_SizeCapInclusive ==
    [][ (/\ WriteStep
         /\ last'.offset = 0
         /\ last'.copy_ok
         /\ last'.full_path \in DOMAIN files
         /\ files[last'.full_path].size >= JIT_BACKUP_MAX_SIZE) =>
          LET t == last'.full_path
              dst == last'.jit.dst
          IN  /\ last'.jit.called
              /\ IF files[t].size = JIT_BACKUP_MAX_SIZE
                 THEN /\ ~Logged(stderr', "Skipping backup")
                      /\ IF last'.jit.ret = 0
                         THEN /\ dst \in DOMAIN files'
                              /\ files'[dst] = files[t]
                              /\ stats'.backups_created =
                                    stats.backups_created + 1
                         ELSE get_backup_path(t, now') \in dirs
                 ELSE /\ Logged(stderr', "Skipping backup")
                      /\ last'.jit.ret = 0
                      /\ dst = ""
                      /\ DOMAIN files' = DOMAIN files
                      /\ stats'.backups_created = stats.backups_created
       ]_vars

\* a file of exactly JIT_BACKUP_MAX_SIZE bytes has been backed up
C12_Witness ==
    /\ last.op = "write"
    /\ last.jit.dst \in DOMAIN files
    /\ files[last.jit.dst].size = JIT_BACKUP_MAX_SIZE
    /\ stats.backups_created = 1

(***************************************************************************)
(* C13: counter updates are atomic.  Once every write call issued has      *)
(* returned, under any interleaving of the worker threads, total_writes is *)
(* the number of calls, blocked_writes the number of rejections logged and *)
(* backups_created the number of backups logged as created.                *)
(***************************************************************************)
Lines(err, line) == Cardinality({i \in 1..Len(err) : err[i] = line})

C13_CountersExact ==
    (\A t \in Threads : thr[t].pc = "idle") =>
        /\ stats.total_writes = ncalls
        /\ stats.blocked_writes = Lines(stderr, "RANSOMWARE DETECTED")
        /\ stats.backups_created = Lines(stderr, "JIT Backup created")

(***************************************************************************)
(* C14: total_writes, blocked_writes and backups_created never decrease:   *)
(* no step of any callback, under any interleaving of the worker threads,  *)
(* makes a counter smaller than it was.                                    *)
(***************************************************************************)
C14_CountersMonotonic ==
    [][ /\ stats'.total_writes >= stats.total_writes
        /\ stats'.blocked_writes >= stats.blocked_writes
        /\ stats'.backups_created >= stats.backups_created ]_vars

(***************************************************************************)
(* C15: every descriptor a callback opens (read, write, open, create,      *)
(* readdir and the backup copy) is closed before the callback returns, on  *)
(* every exit path: after each callback the descriptor table is what it    *)
(* was before, and it is empty.                                            *)
(***************************************************************************)
C15_DescriptorsClosed ==
    [][ CallStep => fds' = fds /\ DOMAIN fds' = {} ]_vars

\* a write that copied a backup (two descriptors) was then rejected by the
\* gate, and no descriptor is open
C15_Witness ==
    /\ last.op = "write"
    /\ last.ret = -EIO
    /\ last.opens = 2
    /\ DOMAIN fds = {}

(***************************************************************************)
(* C16: backups_created is incremented only when the whole source was      *)
(* copied to the backup entry; when a step of the backup fails (stat, open *)
(* of the source, open of the entry, a read or a write of the copy loop)   *)
(* create_jit_backup returns an error and backups_created is unchanged.    *)
(***************************************************************************)
C16_CountedOnlyWhenCopied ==
    [][ (WriteStep /\ last'.jit.called) =>
          LET t == last'.full_path
              dst == last'.jit.dst
          IN  /\ stats'.backups_created > stats.backups_created =>
                    /\ dst \in DOMAIN files'
                    /\ dst # t
                    /\ SameBytes(files'[dst], files[t])
              /\ ~last'.copy_ok =>
                    /\ last'.jit.ret # 0
                    /\ stats'.backups_created = stats.backups_created
       ]_vars

(***************************************************************************)
(* C17: the verdict of the gate is a function of the payload bytes only.   *)
(* Whatever the virtual path, the offset, the counters, the earlier calls  *)
(* and the outcome of the backup step, a write is rejected exactly when    *)
(* the gate rejects the same bytes in a storage where nothing has happened *)
(* yet, and two writes in a row that carry the same buffer get the same    *)
(* verdict.                                                                *)
(***************************************************************************)
Pristine ==
    [files |-> << >>, dirs |-> {},
     stats |-> [total_writes |-> 0, blocked_writes |-> 0,
                backups_created |-> 0],
     err |-> << >>, fds |-> << >>, opens |-> 0, copy_ok |-> TRUE]

PristineVerdict(db, buf) ==
    detect_ransomware(Pristine, db, buf, Len(buf)).ret = -EIO

C17_VerdictFromPayloadOnly ==
    [][ WriteStep =>
          /\ Rejected(stderr') <=> PristineVerdict(magic_db, last'.buf)
          /\ (last'.ret = -EIO) <=> Rejected(stderr')
          /\ (last.op = "write" /\ last.buf = last'.buf) =>
                (Rejected(stderr) <=> Rejected(stderr'))
       ]_vars

\* the same 100 bytes of text were written at offset 1 of the document, with
\* no backup step and counters at 0, and then at offset 0, with a backup
\* step: allowed both times
C17_Witness ==
    /\ last.op = "write"
    /\ last.buf = Text100
    /\ last.path = DocPath
    /\ last.offset = 0
    /\ last.jit.called
    /\ last.ret = 100
    /\ stats.total_writes = 2
    /\ stats.blocked_writes = 0
    /\ files[translate_path(DocPath)].size = 101
    /\ Holds(files[translate_path(DocPath)], Text100, 100, 0)

(***************************************************************************)
(* C18: a backup entry, once created, is never overwritten or truncated by *)
(* a later backup: every entry of the backup directory that carries a      *)
(* backup name and holds a copy still exists after a write that the        *)
(* storage served without an I/O error, with the contents it had.          *)
(***************************************************************************)
BackupSuffix == ".backup"

IsBackupEntry(p) ==
    /\ StartsWith(p, backup_path \o "/")
    /\ Len(p) >= Len(backup_path) + 1 + Len(BackupSuffix)
    /\ SubSeq(p, Len(p) - Len(BackupSuffix) + 1, Len(p)) = BackupSuffix

C18_BackupNeverOverwritten ==
    [][ (WriteStep /\ last'.copy_ok) =>
          \A p \in DOMAIN files :
              (IsBackupEntry(p) /\ files[p].size > 0) =>
                  /\ p \in DOMAIN files'
                  /\ files'[p] = files[p]
       ]_vars

(***************************************************************************)
(* C19: the backup entry of an offset-0 write is a consistent snapshot.    *)
(* When the copy loop of a thread ends, the entry it wrote holds the       *)
(* complete contents that the target held at one instant, also when the    *)
(* other thread writes to the target while the loop runs.                  *)
(***************************************************************************)
C19_BackupIsSnapshot ==
    [][ \A t \in Threads :
          (thr[t].pc = "copy" /\ thr'[t].pc = "bk_load") =>
              <<thr[t].full_path, files'[thr[t].dst]>> \in held
       ]_vars

====
